---- MODULE Spec2Model ----
(***************************************************************************)
(* Model of the three data-preparation scripts of hunyuanvideo-foley:      *)
(*   generate_model_comparison.py  (Manifest Builder)                      *)
(*   replace_video_urls.py         (Log-Driven URL Resolver)               *)
(*   generate_signed_urls.py       (Signed-URL Refresher)                  *)
(*                                                                         *)
(* Text is a sequence of atoms.  The separators the code looks at ("/",    *)
(* "_", "-", "\n", " ", the ".mp4" extension, a "?..." query string, the   *)
(* "b'" and "'" quoting artifacts) and the decimal digits are atoms of     *)
(* their own; every other atom is a run of characters no operation of the  *)
(* code looks into.  A Python dict is a sequence of <<key, value>> pairs   *)
(* with distinct keys, in insertion order.                                 *)
(***************************************************************************)
EXTENDS Integers, Sequences, FiniteSets, TLC

(***************************************************************************)
(* Bounds of the model                                                     *)
(***************************************************************************)
MaxLines == 2

MaxFiles == 3

(***************************************************************************)
(* Generic text and dict helpers                                           *)
(***************************************************************************)
Range(s) == {s[i] : i \in DOMAIN s}

StartsWith(s, p) == Len(s) >= Len(p) /\ SubSeq(s, 1, Len(p)) = p

EndsWith(s, p) == Len(s) >= Len(p) /\ SubSeq(s, Len(s) - Len(p) + 1, Len(s)) = p

Drop(s, n) == SubSeq(s, n + 1, Len(s))

\* position of the first occurrence of sub in s, 0 when there is none
Find(s, sub) ==
    LET hits == {i \in 1..(Len(s) - Len(sub) + 1) : SubSeq(s, i, i + Len(sub) - 1) = sub}
    IN IF hits = {} THEN 0 ELSE CHOOSE i \in hits : \A j \in hits : i <= j

\* str.replace(sub, ''): every non-overlapping occurrence, left to right
RECURSIVE Remove(_, _)
Remove(s, sub) ==
    LET i == Find(s, sub)
    IN IF i = 0 THEN s
       ELSE SubSeq(s, 1, i - 1) \o Remove(Drop(s, i + Len(sub) - 1), sub)

\* str.split(sep) for a one-atom separator
RECURSIVE Split(_, _)
Split(s, sep) ==
    LET i == Find(s, <<sep>>)
    IN IF i = 0 THEN <<s>>
       ELSE <<SubSeq(s, 1, i - 1)>> \o Split(Drop(s, i), sep)

Last(s) == s[Len(s)]

\* os.path.basename: what follows the last "/"
basename(p) == Last(Split(p, "/"))

DictKeys(d) == {d[i][1] : i \in DOMAIN d}

DictHas(d, k) == k \in DictKeys(d)

DictGet(d, k) == d[CHOOSE i \in DOMAIN d : d[i][1] = k][2]

DictSet(d, k, v) ==
    IF DictHas(d, k)
    THEN [i \in DOMAIN d |-> IF d[i][1] = k THEN <<k, v>> ELSE d[i]]
    ELSE Append(d, <<k, v>>)

NoFile == [exists |-> FALSE]

(***************************************************************************)
(* Manifest files.  A file is its sequence of lines and whether the last   *)
(* line ends in a newline.  A line is                                      *)
(*   [kind |-> "blank", ws]        only whitespace (ws: more than "\n")    *)
(*   [kind |-> "bad", ws, text]    text json.loads rejects; ws: the line   *)
(*                                 has leading or trailing whitespace      *)
(*   [kind |-> "obj", ws, canon, data]  a JSON object; canon: the text is  *)
(*                                 exactly json.dumps(data,                *)
(*                                 ensure_ascii=False)                     *)
(* data is [rest, hasVideos, videos]: the other fields, and the 'videos'   *)
(* dict from method to path.                                               *)
(***************************************************************************)
File(ls, n) == [exists |-> TRUE, lines |-> ls, nl |-> n]

\* line.strip()
strip(line) == [line EXCEPT !.ws = FALSE]

\* str is empty after strip()
IsEmptyLine(line) == line.kind = "blank"

\* json.dumps(data, ensure_ascii=False)
json_dumps(data) == [kind |-> "obj", ws |-> FALSE, canon |-> TRUE, data |-> data]

\* ReplaceVideos looking the whole path up in url_mapping
ReplaceVideos_FullPath(videos, url_mapping) ==
    [i \in DOMAIN videos |->
        IF DictHas(url_mapping, videos[i][2])
        THEN <<videos[i][1], DictGet(url_mapping, videos[i][2])>>
        ELSE videos[i]]

\* the for-loop over data['videos'].items(): each value whose basename is a key
\* of url_mapping is replaced
ReplaceVideos(videos, url_mapping) ==
    [i \in DOMAIN videos |->
        IF DictHas(url_mapping, basename(videos[i][2]))
        THEN <<videos[i][1], DictGet(url_mapping, basename(videos[i][2]))>>
        ELSE videos[i]]

\* line_updated
LineUpdated(data, url_mapping) ==
    /\ data.hasVideos
    /\ \E i \in DOMAIN data.videos : DictHas(url_mapping, basename(data.videos[i][2]))

\* ProcessLine with the except branch logging the error and dropping the line
ProcessLine_DropMalformed(raw, url_mapping) ==
    LET line == strip(raw)
    IN IF IsEmptyLine(line) \/ line.kind = "bad" THEN <<>>
       ELSE <<json_dumps(IF line.data.hasVideos
                         THEN [line.data EXCEPT !.videos = ReplaceVideos(@, url_mapping)]
                         ELSE line.data)>>

\* one iteration of the loop over the lines: the lines appended to updated_lines
ProcessLine(raw, url_mapping) ==
    LET line == strip(raw)
    IN IF IsEmptyLine(line) THEN <<>>
       ELSE IF line.kind = "obj"
            THEN <<json_dumps(IF line.data.hasVideos
                              THEN [line.data EXCEPT !.videos = ReplaceVideos(@, url_mapping)]
                              ELSE line.data)>>
            ELSE <<line>>

\* UpdatedLines with the append placed under "if line_updated"
RECURSIVE UpdatedLines_OnlyChanged(_, _)
UpdatedLines_OnlyChanged(ls, url_mapping) ==
    IF ls = <<>> THEN <<>>
    ELSE (IF Head(ls).kind = "obj" /\ ~LineUpdated(Head(ls).data, url_mapping)
          THEN <<>> ELSE ProcessLine(Head(ls), url_mapping))
         \o UpdatedLines_OnlyChanged(Tail(ls), url_mapping)

RECURSIVE UpdatedLines(_, _)
UpdatedLines(ls, url_mapping) ==
    IF ls = <<>> THEN <<>>
    ELSE ProcessLine(Head(ls), url_mapping) \o UpdatedLines(Tail(ls), url_mapping)

RECURSIVE UpdatesCount(_, _)
UpdatesCount(ls, url_mapping) ==
    IF ls = <<>> THEN 0
    ELSE (IF Head(ls).kind = "obj" /\ LineUpdated(Head(ls).data, url_mapping) THEN 1 ELSE 0)
         + UpdatesCount(Tail(ls), url_mapping)

\* update_jsonl_file writing back with open(jsonl_file, 'a')
update_jsonl_file_Append(file, url_mapping) ==
    IF ~file.exists
    THEN [file |-> file, count |-> 0]
    ELSE [file  |-> File(file.lines \o UpdatedLines(file.lines, url_mapping), TRUE),
          count |-> UpdatesCount(file.lines, url_mapping)]

\* update_jsonl_file: the file afterwards and the returned count
update_jsonl_file(file, url_mapping) ==
    IF ~file.exists
    THEN [file |-> file, count |-> 0]
    ELSE [file  |-> File(UpdatedLines(file.lines, url_mapping), TRUE),
          count |-> UpdatesCount(file.lines, url_mapping)]


(***************************************************************************)
(* generate_model_comparison.py                                            *)
(***************************************************************************)
Digits == {"0", "1", "2", "3", "4", "5", "6", "7", "8", "9"}

DigitVal(a) ==
    CASE a = "0" -> 0 [] a = "1" -> 1 [] a = "2" -> 2 [] a = "3" -> 3 [] a = "4" -> 4
      [] a = "5" -> 5 [] a = "6" -> 6 [] a = "7" -> 7 [] a = "8" -> 8 [] a = "9" -> 9

\* str.isdigit()
isdigit(s) == Len(s) > 0 /\ \A i \in DOMAIN s : s[i] \in Digits

RECURSIVE DigitsValue(_)
DigitsValue(s) ==
    IF s = <<>> THEN 0 ELSE 10 * DigitsValue(SubSeq(s, 1, Len(s) - 1)) + DigitVal(Last(s))

\* int(s) returns: an optional sign, then digits
IntParses(s) ==
    \/ isdigit(s)
    \/ Len(s) > 1 /\ s[1] \in {"-", "+"} /\ isdigit(Tail(s))

\* int(s)
int(s) ==
    IF isdigit(s) THEN DigitsValue(s)
    ELSE IF s[1] = "-" THEN 0 - DigitsValue(Tail(s)) ELSE DigitsValue(Tail(s))

\* str.lower() of an atom
LowerAtom(a) ==
    CASE a = "Foo" -> "foo"
      [] a = "MMAudio" -> "mmaudio"
      [] a = "HIFI" -> "hifi"
      [] a = "Foley" -> "foley"
      [] a = "V" -> "v"
      [] a = "AURA" -> "aura"
      [] OTHER -> a

\* str.lower()
lower(s) == [i \in DOMAIN s |-> LowerAtom(s[i])]

OursPrefix == <<"Ours", "_", "_", "1", "2", "8", "d", "_", "2", "0", "0", "k", "_", "_">>

VAuraPrefix == <<"V", "_", "AURA", "_">>

Ext == <<".mp4">>

\* the filenames the loop of extract_video_ids_and_models does not skip
Accepted(filename) ==
    /\ ~(filename[1] \in Digits /\ "-" \in Range(filename))
    /\ "_" \in Range(filename)

\* model_name of an accepted filename
ModelName(filename) ==
    IF StartsWith(filename, OursPrefix) THEN <<"HIFI", "-", "Foley">>
    ELSE IF StartsWith(filename, VAuraPrefix) THEN <<"V", "_", "AURA">>
    ELSE Split(Remove(filename, Ext), "_")[1]

\* video_id of an accepted filename
VideoId(filename) ==
    IF StartsWith(filename, OursPrefix) THEN Remove(Remove(filename, OursPrefix), Ext)
    ELSE Last(Split(Remove(filename, Ext), "_"))

\* AddToGroup with the group created anew for every file
AddToGroup_Reset(video_groups, video_id, model_name, path) ==
    DictSet(video_groups, video_id, <<<<model_name, path>>>>)

\* video_groups[video_id][model_name] = path, creating the group when it is new
AddToGroup(video_groups, video_id, model_name, path) ==
    DictSet(video_groups, video_id,
            DictSet(IF DictHas(video_groups, video_id)
                    THEN DictGet(video_groups, video_id) ELSE <<>>,
                    model_name, path))

\* extract_video_ids_and_models, over the listing of the video directory
RECURSIVE GroupFiles(_, _)
GroupFiles(video_files, video_groups) ==
    IF video_files = <<>> THEN video_groups
    ELSE LET filename == Head(video_files)
         IN GroupFiles(Tail(video_files),
                IF Accepted(filename)
                THEN AddToGroup(video_groups, VideoId(filename), ModelName(filename),
                                <<"videos", "/", "demo", "_", "show", "/">> \o filename)
                ELSE video_groups)

\* Path.glob on a directory that does not exist yields nothing
extract_video_ids_and_models(video_dir) ==
    GroupFiles(IF video_dir.exists THEN video_dir.files ELSE <<>>, <<>>)

CsvStart == 64

\* get_prompt_from_csv from row index i (0-based) on: the caption, or the
\* ValueError of int()
RECURSIVE PromptFrom(_, _, _)
PromptFrom(csv_data, video_id, i) ==
    IF i >= Len(csv_data) THEN [raised |-> FALSE, prompt |-> ""]
    ELSE LET row == csv_data[i + 1]
             name == Remove(Last(Split(row.video, "/")), Ext)
         IN IF row.video = <<>> THEN PromptFrom(csv_data, video_id, i + 1)
            ELSE IF ~IntParses(name) \/ ~IntParses(video_id)
                 THEN [raised |-> TRUE, prompt |-> ""]
                 ELSE IF int(name) = int(video_id)
                      THEN [raised |-> FALSE, prompt |-> row.SoundCaption]
                      ELSE PromptFrom(csv_data, video_id, i + 1)

get_prompt_from_csv(csv_data, video_id) == PromptFrom(csv_data, video_id, CsvStart)

\* the sort key lambda x: int(x) if x.isdigit() else float('inf'), as <<is inf, value>>
SortKey(x) == IF isdigit(x) THEN <<0, int(x)>> ELSE <<1, 0>>

KeyLeq(a, b) == a[1] < b[1] \/ (a[1] = b[1] /\ a[2] <= b[2])

\* sorted(): stable, so x goes behind every element whose key is not greater
RECURSIVE InsertSorted(_, _)
InsertSorted(sorted, x) ==
    IF sorted = <<>> THEN <<x>>
    ELSE IF KeyLeq(SortKey(Head(sorted)), SortKey(x))
         THEN <<Head(sorted)>> \o InsertSorted(Tail(sorted), x)
         ELSE <<x>> \o sorted

RECURSIVE SortIds(_, _)
SortIds(ids, sorted) ==
    IF ids = <<>> THEN sorted ELSE SortIds(Tail(ids), InsertSorted(sorted, Head(ids)))

\* sorted(video_groups.keys(), key=...)
sorted_video_ids(video_groups) ==
    SortIds([i \in DOMAIN video_groups |-> video_groups[i][1]], <<>>)

model_mapping ==
    << <<<<"HIFI", "-", "Foley">>, <<"hifi", "-", "foley">>>>,
       <<<<"FoleyCrafter">>, <<"foleycrafter">>>>,
       <<<<"Frieren">>, <<"frieren">>>>,
       <<<<"MMAudio">>, <<"mmaudio">>>>,
       <<<<"ThinkSound">>, <<"thinksound">>>>,
       <<<<"V", "_", "AURA">>, <<"v", "-", "aura">>>> >>

\* model_mapping.get(model_name, model_name.lower())
mapped_name(model_name) ==
    IF DictHas(model_mapping, model_name) THEN DictGet(model_mapping, model_name)
    ELSE lower(model_name)

\* the loop filling entry["videos"]
RECURSIVE EntryVideos(_, _)
EntryVideos(models, videos) ==
    IF models = <<>> THEN videos
    ELSE EntryVideos(Tail(models),
                     DictSet(videos, mapped_name(Head(models)[1]), Head(models)[2]))

\* the entries built so far by the loop over sorted_video_ids, from position idx
\* (0-based) on; raised when a caption lookup raises
RECURSIVE BuildEntries(_, _, _, _)
BuildEntries(csv_data, video_groups, ids, idx) ==
    IF idx >= Len(ids) THEN [raised |-> FALSE, entries |-> <<>>]
    ELSE LET video_id == ids[idx + 1]
             p == get_prompt_from_csv(csv_data, video_id)
             rest == BuildEntries(csv_data, video_groups, ids, idx + 1)
             entry == [sequence_id |-> idx + 1,
                       video_id    |-> video_id,
                       prompt      |-> p.prompt,
                       videos      |-> EntryVideos(DictGet(video_groups, video_id), <<>>)]
         IN IF p.raised \/ rest.raised THEN [raised |-> TRUE, entries |-> <<>>]
            ELSE [raised |-> FALSE, entries |-> <<entry>> \o rest.entries]

\* the line json.dumps(entry, ensure_ascii=False) writes
EntryLine(entry) ==
    json_dumps([rest |-> [sequence_id |-> entry.sequence_id,
                          video_id |-> entry.video_id,
                          prompt |-> entry.prompt],
                hasVideos |-> TRUE,
                videos |-> entry.videos])

\* generate_model_comparison_jsonl: raised (open() of a missing CSV, int() of a
\* caption lookup), or the entries written
generate_model_comparison_jsonl(csv_file, video_dir) ==
    IF ~csv_file.exists THEN [raised |-> TRUE, entries |-> <<>>]
    ELSE LET video_groups == extract_video_ids_and_models(video_dir)
         IN BuildEntries(csv_file.rows, video_groups, sorted_video_ids(video_groups), 0)

(***************************************************************************)
(* replace_video_urls.py and generate_signed_urls.py                       *)
(***************************************************************************)
\* the path segment extract_cos_paths_from_mapping splits the saved URLs on
Marker == <<"/", "hunyuanvideo", "-", "foley", "_", "demo", "/">>

bucket_name == <<"texttoaudio-train-1258344703">>

region == <<"ap-shanghai">>

\* build_cos_public_url
build_cos_public_url(cos_path) ==
    <<"https:", "/", "/">> \o bucket_name \o <<".cos.">> \o region
        \o <<".myqcloud.com", "/">> \o cos_path

JSONL_FILES ==
    << <<"src/assets/demo_videos.jsonl">>,
       <<"src/assets/moviegen_benchmark.jsonl">>,
       <<"src/assets/model_comparison_videos.jsonl">> >>

\* the paths of the model's file system: the manifests and the names a backup
\* of one can get
FsPaths ==
    UNION {{JSONL_FILES[i],
            JSONL_FILES[i] \o <<".backup">>,
            JSONL_FILES[i] \o <<".signed">>,
            JSONL_FILES[i] \o <<".signed", ".backup">>} : i \in DOMAIN JSONL_FILES}

\* create_backup: shutil.copy2 of file_path to file_path + ".backup" when
\* file_path exists
create_backup(files, file_path) ==
    IF files[file_path].exists
    THEN [files EXCEPT ![file_path \o <<".backup">>] = files[file_path]]
    ELSE files

Whitespace == {" ", "\n"}

\* str.strip() of the tool's output
RECURSIVE StripText(_)
StripText(s) ==
    IF s # <<>> /\ Head(s) \in Whitespace THEN StripText(Tail(s))
    ELSE IF s # <<>> /\ Last(s) \in Whitespace THEN StripText(SubSeq(s, 1, Len(s) - 1))
    ELSE s

\* result.stdout.decode('utf-8').strip().split('\n')[0], then the b'...' artifact
\* removed
UrlOfStdout(stdout) ==
    LET url == Split(StripText(stdout), "\n")[1]
    IN IF StartsWith(url, <<"b'">>) /\ EndsWith(url, <<"'">>)
       THEN SubSeq(url, 2, Len(url) - 1)
       ELSE url

None == [none |-> TRUE]

Some(url) == [none |-> FALSE, url |-> url]

\* Python truthiness of an Optional[str]
Truthy(r) == ~r.none /\ r.url # <<>>

Failures == {"FileNotFoundError", "TimeoutExpired", "CalledProcessError"}

\* get_cos_signed_url of generate_signed_urls.py with the fallback of the Resolver
get_cos_signed_url_refresher_Fallback(cos_path, outcome) ==
    IF outcome.kind \in Failures THEN Some(build_cos_public_url(cos_path))
    ELSE Some(UrlOfStdout(outcome.stdout))

\* get_cos_signed_url of generate_signed_urls.py: None when the tool fails
get_cos_signed_url_refresher(cos_path, outcome) ==
    IF outcome.kind \in Failures THEN None
    ELSE Some(UrlOfStdout(outcome.stdout))

\* get_cos_signed_url of replace_video_urls.py without its fallback
get_cos_signed_url_NoFallback(remote_file_path, outcome) ==
    IF outcome.kind \in Failures THEN None
    ELSE Some(UrlOfStdout(outcome.stdout))

\* get_cos_signed_url of replace_video_urls.py: the public URL when the tool fails
get_cos_signed_url(remote_file_path, outcome) ==
    IF outcome.kind \in Failures THEN Some(build_cos_public_url(remote_file_path))
    ELSE Some(UrlOfStdout(outcome.stdout))

\* the loop of parse_upload_log over the lines of the log
RECURSIVE ParseLines(_, _)
ParseLines(lines, file_mapping) ==
    IF lines = <<>> THEN file_mapping
    ELSE ParseLines(Tail(lines),
            IF Head(lines).kind = "upload"
            THEN DictSet(file_mapping, basename(Head(lines).local), Head(lines).cos)
            ELSE file_mapping)

\* parse_upload_log that opens the log without asking whether it exists
parse_upload_log_NoExistsCheck(log) ==
    IF ~log.exists THEN [raised |-> TRUE, file_mapping |-> <<>>]
    ELSE [raised |-> FALSE, file_mapping |-> ParseLines(log.lines, <<>>)]

\* parse_upload_log: {} when the log does not exist
parse_upload_log(log) ==
    [raised |-> FALSE,
     file_mapping |-> IF ~log.exists THEN <<>> ELSE ParseLines(log.lines, <<>>)]

\* the loop of extract_cos_paths_from_mapping over the saved mapping
RECURSIVE ExtractPaths(_, _)
ExtractPaths(url_mapping, cos_paths) ==
    IF url_mapping = <<>> THEN cos_paths
    ELSE LET filename == Head(url_mapping)[1]
             public_url == Head(url_mapping)[2]
             at == Find(public_url, Marker)
         IN ExtractPaths(Tail(url_mapping),
                IF at # 0
                THEN DictSet(cos_paths, filename,
                             <<"hunyuanvideo", "-", "foley", "_", "demo", "/">>
                                 \o Drop(public_url, at + Len(Marker) - 1))
                ELSE cos_paths)

\* extract_cos_paths_from_mapping: {} when the mapping file does not exist
extract_cos_paths_from_mapping(mapping_file) ==
    IF ~mapping_file.exists THEN <<>> ELSE ExtractPaths(mapping_file.map, <<>>)

(***************************************************************************)
(* State                                                                   *)
(***************************************************************************)
VARIABLES
    u_orig,         \* the manifest as it was before the first update pass
    u_file,         \* the manifest now
    u_map,          \* the url_mapping handed to update_jsonl_file
    u_pass,         \* update passes done on the manifest
    u_once,         \* the manifest after the first pass
    u_count,        \* the count the first pass returned
    csv_file,       \* public/test_aries_tv2a_sound.csv: NoFile or its rows
    video_dir,      \* public/videos/demo_show: NoFile or its *.mp4 listing
    jsonl_entries,  \* what generate_model_comparison_jsonl returned
    fs,             \* the manifests and their backups, by path
    fs0,            \* fs as it was initially
    fs_before,      \* fs as it was when the Refresher started signing
    upload_log,     \* upload_result.log: NoFile or its lines
    mapping_file,   \* video_url_mapping.json
    signed_file,    \* signed_video_url_mapping.json
    pc,             \* where the running script is; "idle" when none runs
    idx,            \* position of the running loop (0-based)
    file_mapping,   \* Resolver: local filename -> remote path
    url_mapping,    \* Resolver: local filename -> URL
    cos_paths,      \* Refresher: local filename -> remote path
    signed_urls,    \* Refresher: local filename -> signed URL
    sign_log,       \* per script, its signing calls: filename -> what came back
    last_call,      \* the last signing call and the tool's outcome
    status,         \* per script: none, running, returned, raised
    missing_input   \* per script: its required input was absent when it started

updVars == <<u_orig, u_file, u_map, u_pass, u_once, u_count>>

bldVars == <<csv_file, video_dir, jsonl_entries>>

urlVars == <<fs0, fs_before, upload_log, mapping_file, signed_file, idx, file_mapping,
             url_mapping, cos_paths, signed_urls, sign_log, last_call>>

vars == <<updVars, bldVars, urlVars, fs, pc, status, missing_input>>

(***************************************************************************)
(* Texts the inputs are drawn from                                         *)
(***************************************************************************)
Mp4(stem) == <<stem, ".mp4">>

\* a local reference of a manifest, as the frontend uses it
LocalPath(name) == <<"videos", "/", "demo", "_", "show", "/">> \o name

\* a remote path under the demo directory
DemoPath(name) == <<"hunyuanvideo", "-", "foley", "_", "demo", "/", "x", "/">> \o name

\* what a signed URL of cos_path looks like: the public URL plus a query string
SignedUrl(cos_path, sig) == build_cos_public_url(cos_path) \o <<sig>>

Obj(ws, canon, rest, hasVideos, videos) ==
    [kind |-> "obj", ws |-> ws, canon |-> canon,
     data |-> [rest |-> rest, hasVideos |-> hasVideos, videos |-> videos]]

Bad(ws, text) == [kind |-> "bad", ws |-> ws, text |-> text]

Blank(ws) == [kind |-> "blank", ws |-> ws]

UpdLinePool ==
    { Blank(FALSE), Blank(TRUE),
      Bad(FALSE, "{oops"), Bad(TRUE, "{oops"),
      Obj(FALSE, FALSE, "r1", FALSE, <<>>),
      Obj(FALSE, TRUE, "r2", TRUE, << <<"ours", LocalPath(Mp4("a"))>> >>),
      Obj(FALSE, FALSE, "r3", TRUE, << <<"ours", LocalPath(Mp4("a"))>>,
                                       <<"mmaudio", LocalPath(Mp4("b"))>> >>),
      Obj(TRUE, FALSE, "r4", TRUE, << <<"ours", LocalPath(Mp4("c"))>> >>) }

UpdMapPool ==
    { <<>>,
      << <<Mp4("a"), build_cos_public_url(DemoPath(Mp4("a")))>> >>,
      << <<Mp4("a"), SignedUrl(DemoPath(Mp4("a")), "?sign=s1")>> >>,
      << <<Mp4("a"), build_cos_public_url(DemoPath(Mp4("b")))>>,
         <<Mp4("b"), build_cos_public_url(DemoPath(Mp4("c")))>> >>,
      << <<Mp4("a"), build_cos_public_url(DemoPath(Mp4("b")))>>,
         <<Mp4("b"), build_cos_public_url(DemoPath(Mp4("b")))>> >> }

SeqsUpTo(S, n) == UNION {[1..k -> S] : k \in 0..n}

UpdFilePool ==
    {NoFile} \cup {File(ls, n) : ls \in SeqsUpTo(UpdLinePool, MaxLines), n \in BOOLEAN}

(***************************************************************************)
(* The parts of the state a specification leaves alone                     *)
(***************************************************************************)
UpdateIdle ==
    /\ u_orig = NoFile
    /\ u_file = NoFile
    /\ u_map = <<>>
    /\ u_pass = 0
    /\ u_once = NoFile
    /\ u_count = 0

BuilderIdle ==
    /\ csv_file = NoFile
    /\ video_dir = NoFile
    /\ jsonl_entries = <<>>

NoCall == [script |-> "none"]

ScriptsNotRun ==
    /\ pc = "idle"
    /\ idx = 0
    /\ file_mapping = <<>>
    /\ url_mapping = <<>>
    /\ cos_paths = <<>>
    /\ signed_urls = <<>>
    /\ sign_log = [resolver |-> <<>>, refresher |-> <<>>]
    /\ last_call = NoCall
    /\ status = [builder |-> "none", resolver |-> "none", refresher |-> "none"]
    /\ missing_input = [builder |-> FALSE, resolver |-> FALSE, refresher |-> FALSE]
    /\ mapping_file = NoFile
    /\ signed_file = NoFile

PipelineIdle ==
    /\ fs = [p \in FsPaths |-> NoFile]
    /\ fs0 = fs
    /\ fs_before = fs
    /\ upload_log = NoFile
    /\ ScriptsNotRun

(***************************************************************************)
(* update_jsonl_file applied to one manifest, once and then again          *)
(***************************************************************************)
InitUpdate ==
    /\ u_orig \in UpdFilePool
    /\ u_file = u_orig
    /\ u_map \in UpdMapPool
    /\ u_pass = 0
    /\ u_once = NoFile
    /\ u_count = 0
    /\ BuilderIdle
    /\ PipelineIdle

UpdatePass ==
    /\ u_pass < 2
    /\ LET r == update_jsonl_file(u_file, u_map)
       IN /\ u_file' = r.file
          /\ u_once' = IF u_pass = 0 THEN r.file ELSE u_once
          /\ u_count' = IF u_pass = 0 THEN r.count ELSE u_count
    /\ u_pass' = u_pass + 1
    /\ UNCHANGED <<u_orig, u_map, bldVars, urlVars, fs, pc, status, missing_input>>

NextUpdate == UpdatePass

SpecUpdate == InitUpdate /\ [][NextUpdate]_vars

(***************************************************************************)
(* Claims about update_jsonl_file                                          *)
(***************************************************************************)
NonBlank(ls) == SelectSeq(ls, LAMBDA l : l.kind # "blank")

\* the mapping never sends a file to a URL whose basename is a key with another URL
StableMapping(m) ==
    \A i \in DOMAIN m :
        DictHas(m, basename(m[i][2])) => DictGet(m, basename(m[i][2])) = m[i][2]

\* C1 as stated: for every manifest and every mapping, a second pass leaves the
\* file as the first pass left it
C1_IdempotentAnyMapping == u_pass = 2 => u_file = u_once

\* C1 amended: a second pass leaves the file as the first pass left it whenever
\* no URL of the mapping has a basename that is a key mapped to a different URL
C1_IdempotentStableMapping == (u_pass = 2 /\ StableMapping(u_map)) => u_file = u_once

\* a second pass over a manifest whose first pass rewrote a reference to a URL
\* whose basename is again a key of the mapping
C1_Witness ==
    /\ u_pass = 2
    /\ StableMapping(u_map)
    /\ u_count > 0
    /\ \E i \in DOMAIN u_map : DictHas(u_map, basename(u_map[i][2]))


\* the first pass ran over an existing manifest
FirstPassDone == u_pass >= 1 /\ u_orig.exists

\* the lines of data whose 'videos' holds a reference the mapping resolves
References(line, m) ==
    /\ line.kind = "obj"
    /\ line.data.hasVideos
    /\ \E j \in DOMAIN line.data.videos : DictHas(m, basename(line.data.videos[j][2]))

\* every reference of an object line the mapping resolves now holds the mapped URL
Resolved(inl, outl, m) ==
    /\ outl.kind = "obj"
    /\ DOMAIN outl.data.videos = DOMAIN inl.data.videos
    /\ \A j \in DOMAIN inl.data.videos :
          /\ outl.data.videos[j][1] = inl.data.videos[j][1]
          /\ outl.data.videos[j][2] =
                IF DictHas(m, basename(inl.data.videos[j][2]))
                THEN DictGet(m, basename(inl.data.videos[j][2]))
                ELSE inl.data.videos[j][2]

BuilderFilePool ==
    { <<"Foo", "_", "1", ".mp4">>,
      <<"foo", "_", "1", ".mp4">>,
      <<"MMAudio", "_", "1", ".mp4">>,
      <<"MMAudio", "_", "1", "0", ".mp4">>,
      OursPrefix \o <<"2", ".mp4">>,
      VAuraPrefix \o <<"1", ".mp4">>,
      <<"1", "-", "1", ".mp4">>,
      <<"plain", ".mp4">>,
      <<"Foo", "_", "abc", ".mp4">> }

\* the listings of a directory: up to n distinct files, in any order
Listings(S, n) ==
    {l \in SeqsUpTo(S, n) : \A i, j \in DOMAIN l : i # j => l[i] # l[j]}

Row(video, caption) == [video |-> video, SoundCaption |-> caption]

CsvVideo(name) == <<"MovieGenAudioBenchSfx", "/", "video", "_", "with", "_", "audio", "/">> \o name

\* the rows in front of CsvStart, which hold captions for the same ids
LeadingRows == [i \in 1..CsvStart |-> Row(CsvVideo(<<"1", ".mp4">>), "leading row")]

CsvPool ==
    { NoFile,
      [exists |-> TRUE, rows |-> << Row(CsvVideo(<<"1", ".mp4">>), "leading row") >>],
      [exists |-> TRUE, rows |-> LeadingRows],
      [exists |-> TRUE, rows |-> LeadingRows \o << Row(CsvVideo(<<"1", ".mp4">>), "dog barking") >>],
      [exists |-> TRUE, rows |-> LeadingRows \o << Row(<<>>, "no video"),
                                                   Row(CsvVideo(<<"2", ".mp4">>), "rain"),
                                                   Row(CsvVideo(<<"1", ".mp4">>), "dog barking"),
                                                   Row(CsvVideo(<<"1", ".mp4">>), "second match") >>],
      [exists |-> TRUE, rows |-> LeadingRows \o << Row(CsvVideo(<<"clip", ".mp4">>), "clip") >>] }

DirPool ==
    {NoFile} \cup {[exists |-> TRUE, files |-> l] : l \in Listings(BuilderFilePool, MaxFiles)}

\* python generate_model_comparison.py
BuilderRun ==
    /\ pc = "idle"
    /\ status.builder = "none"
    /\ LET r == generate_model_comparison_jsonl(csv_file, video_dir)
       IN /\ status' = [status EXCEPT !.builder = IF r.raised THEN "raised" ELSE "returned"]
          /\ jsonl_entries' = r.entries
          /\ fs' = IF r.raised THEN fs
                   ELSE [fs EXCEPT ![JSONL_FILES[3]] =
                            File([i \in DOMAIN r.entries |-> EntryLine(r.entries[i])], TRUE)]
    /\ missing_input' = [missing_input EXCEPT !.builder = ~csv_file.exists \/ ~video_dir.exists]
    /\ UNCHANGED <<updVars, csv_file, video_dir, urlVars, pc>>

InitBuilder ==
    /\ csv_file \in CsvPool
    /\ video_dir \in DirPool
    /\ jsonl_entries = <<>>
    /\ UpdateIdle
    /\ PipelineIdle

NextBuilder == BuilderRun

SpecBuilder == InitBuilder /\ [][NextBuilder]_vars

(***************************************************************************)
(* Claims about the Manifest Builder                                       *)
(***************************************************************************)
AcceptedFiles ==
    IF video_dir.exists
    THEN {video_dir.files[i] : i \in {j \in DOMAIN video_dir.files : Accepted(video_dir.files[j])}}
    ELSE {}

FoundIds == {VideoId(f) : f \in AcceptedFiles}

LabelsOf(id) == {ModelName(f) : f \in {g \in AcceptedFiles : VideoId(g) = id}}

EntriesOf(id) == {k \in DOMAIN jsonl_entries : jsonl_entries[k].video_id = id}

\* a row the caption lookup of id reads (index CsvStart on) that names id
HasCaptionRow(id) ==
    \E i \in DOMAIN csv_file.rows :
        /\ i > CsvStart
        /\ csv_file.rows[i].video # <<>>
        /\ LET name == Remove(basename(csv_file.rows[i].video), Ext)
           IN IntParses(name) /\ IntParses(id) /\ int(name) = int(id)

\* C6: with the CSV there, the builder writes one entry per distinct video id
\* found, in ascending numeric order of the id with the ids that do not parse as
\* integers last, the k-th entry numbered k, and an id without a caption row
\* still gets its entry, with the empty prompt
C6_OneEntryPerIdSortedNumbered ==
    (status.builder # "none" /\ csv_file.exists) =>
        /\ status.builder = "returned"
        /\ Len(jsonl_entries) = Cardinality(FoundIds)
        /\ {jsonl_entries[k].video_id : k \in DOMAIN jsonl_entries} = FoundIds
        /\ Len(fs[JSONL_FILES[3]].lines) = Len(jsonl_entries)
        /\ \A k \in DOMAIN jsonl_entries :
              /\ jsonl_entries[k].sequence_id = k
              /\ ~HasCaptionRow(jsonl_entries[k].video_id) => jsonl_entries[k].prompt = ""
        /\ \A k \in DOMAIN jsonl_entries : \A l \in DOMAIN jsonl_entries :
              k < l =>
                 LET a == jsonl_entries[k].video_id
                     b == jsonl_entries[l].video_id
                 IN /\ (IntParses(a) /\ IntParses(b)) => int(a) <= int(b)
                    /\ IntParses(b) => IntParses(a)

Upload(local, cos) == [kind |-> "upload", local |-> local, cos |-> cos]

OtherLine == [kind |-> "other"]

LocalFile(name) == <<"/", "local", "/">> \o name

LogPool ==
    { NoFile,
      [exists |-> TRUE, lines |-> << OtherLine >>],
      [exists |-> TRUE, lines |-> << Upload(LocalFile(<<"notes", ".txt">>),
                                            DemoPath(<<"notes", ".txt">>)) >>],
      [exists |-> TRUE, lines |-> << Upload(LocalFile(Mp4("a")), DemoPath(Mp4("a"))),
                                     OtherLine,
                                     Upload(LocalFile(<<"notes", ".txt">>),
                                            DemoPath(<<"notes", ".txt">>)),
                                     Upload(LocalFile(Mp4("b")), DemoPath(Mp4("b"))) >>],
      [exists |-> TRUE, lines |-> << Upload(LocalFile(Mp4("a")), DemoPath(Mp4("a"))),
                                     Upload(LocalFile(Mp4("b")),
                                            <<"other", "/">> \o Mp4("b")) >>] }

ManifestA ==
    File(<< Obj(FALSE, FALSE, "r1", TRUE, << <<"ours", LocalPath(Mp4("a"))>>,
                                             <<"mmaudio", LocalPath(Mp4("b"))>> >>),
            Blank(FALSE),
            Bad(TRUE, "{oops") >>, TRUE)

ManifestB ==
    File(<< Obj(FALSE, TRUE, "r2", TRUE, << <<"ours", LocalPath(Mp4("a"))>> >>),
            Obj(FALSE, TRUE, "r3", FALSE, <<>>) >>, TRUE)

\* the outcomes of one run of "coscmd signurl": the tool is not there, it times
\* out, it exits non-zero, or it prints; url is the URL the output carries
Outcomes(cos_path, sig) ==
    {[kind |-> k, stdout |-> <<>>, url |-> <<>>] : k \in Failures}
    \cup {[kind |-> "ok", stdout |-> SignedUrl(cos_path, sig) \o <<"\n">>,
           url |-> SignedUrl(cos_path, sig)],
          [kind |-> "ok", stdout |-> <<"b'">> \o SignedUrl(cos_path, sig) \o <<"'", "\n">>,
           url |-> SignedUrl(cos_path, sig)],
          [kind |-> "ok", stdout |-> <<"\n">>, url |-> <<>>]}

\* what sign_log keeps of an outcome
Logged(outcome) == [failed |-> outcome.kind \in Failures, url |-> outcome.url]

Init ==
    /\ UpdateIdle
    /\ \E c \in {<<FALSE, TRUE>>, <<TRUE, FALSE>>, <<TRUE, TRUE>>} :
          /\ csv_file = IF c[1]
                        THEN [exists |-> TRUE,
                              rows |-> LeadingRows \o << Row(CsvVideo(<<"1", ".mp4">>), "dog barking") >>]
                        ELSE NoFile
          /\ video_dir = IF c[2]
                         THEN [exists |-> TRUE, files |-> << <<"MMAudio", "_", "1", ".mp4">> >>]
                         ELSE NoFile
    /\ jsonl_entries = <<>>
    /\ \E m1 \in {NoFile, ManifestA} : \E m2 \in {ManifestA, ManifestB} :
          fs = [p \in FsPaths |-> IF p = JSONL_FILES[1] THEN m1
                                  ELSE IF p = JSONL_FILES[2] THEN m2 ELSE NoFile]
    /\ fs0 = fs
    /\ fs_before = fs
    /\ upload_log \in LogPool
    /\ ScriptsNotRun

Returns(script) ==
    /\ status' = [status EXCEPT ![script] = "returned"]
    /\ pc' = "idle"

\* replace_video_urls.main up to the call of generate_video_url_mapping
ResolverStart ==
    /\ pc = "idle"
    /\ status.resolver = "none"
    /\ missing_input' = [missing_input EXCEPT !.resolver = ~upload_log.exists]
    /\ LET r == parse_upload_log(upload_log)
       IN IF r.raised
          THEN /\ status' = [status EXCEPT !.resolver = "raised"]
               /\ UNCHANGED <<pc, file_mapping, url_mapping, idx, sign_log>>
          ELSE IF r.file_mapping = <<>>
          THEN /\ Returns("resolver")
               /\ UNCHANGED <<file_mapping, url_mapping, idx, sign_log>>
          ELSE /\ status' = [status EXCEPT !.resolver = "running"]
               /\ pc' = "generate_video_url_mapping"
               /\ file_mapping' = r.file_mapping
               /\ url_mapping' = <<>>
               /\ idx' = 0
               /\ sign_log' = [sign_log EXCEPT !.resolver = <<>>]
    /\ UNCHANGED <<updVars, bldVars, fs, fs0, fs_before, upload_log, mapping_file,
                   signed_file, cos_paths, signed_urls, last_call>>

\* one iteration of the loop of generate_video_url_mapping
ResolverSign ==
    /\ pc = "generate_video_url_mapping"
    /\ idx < Len(file_mapping)
    /\ LET filename == file_mapping[idx + 1][1]
           cos_path == file_mapping[idx + 1][2]
       IN IF EndsWith(filename, <<".mp4">>)
          THEN \E outcome \in Outcomes(cos_path, "?sign=s1") :
                  LET signed_url == get_cos_signed_url(cos_path, outcome)
                  IN /\ url_mapping' = IF Truthy(signed_url)
                                       THEN DictSet(url_mapping, filename, signed_url.url)
                                       ELSE url_mapping
                     /\ sign_log' = [sign_log EXCEPT !.resolver =
                                        DictSet(@, filename, Logged(outcome))]
                     /\ last_call' = [script |-> "resolver", filename |-> filename,
                                      cos_path |-> cos_path, outcome |-> outcome]
          ELSE UNCHANGED <<url_mapping, sign_log, last_call>>
    /\ idx' = idx + 1
    /\ UNCHANGED <<updVars, bldVars, fs, fs0, fs_before, upload_log, mapping_file,
                   signed_file, file_mapping, cos_paths, signed_urls, pc, status,
                   missing_input>>

\* main after generate_video_url_mapping: leave when nothing was resolved
ResolverMapped ==
    /\ pc = "generate_video_url_mapping"
    /\ idx = Len(file_mapping)
    /\ IF url_mapping = <<>>
       THEN Returns("resolver") /\ UNCHANGED idx
       ELSE pc' = "create_backup" /\ idx' = 0 /\ UNCHANGED status
    /\ UNCHANGED <<updVars, bldVars, fs, fs0, fs_before, upload_log, mapping_file,
                   signed_file, file_mapping, url_mapping, cos_paths, signed_urls,
                   sign_log, last_call, missing_input>>

\* main, loop over JSONL_FILES: create_backup(jsonl_file)
ResolverBackup ==
    /\ pc = "create_backup"
    /\ idx < Len(JSONL_FILES)
    /\ fs' = create_backup(fs, JSONL_FILES[idx + 1])
    /\ pc' = "update_jsonl_file"
    /\ UNCHANGED <<updVars, bldVars, urlVars, status, missing_input>>

\* main, loop over JSONL_FILES: update_jsonl_file(jsonl_file, url_mapping)
ResolverUpdate ==
    /\ pc = "update_jsonl_file"
    /\ fs' = [fs EXCEPT ![JSONL_FILES[idx + 1]] = update_jsonl_file(@, url_mapping).file]
    /\ idx' = idx + 1
    /\ pc' = "create_backup"
    /\ UNCHANGED <<updVars, bldVars, fs0, fs_before, upload_log, mapping_file,
                   signed_file, file_mapping, url_mapping, cos_paths, signed_urls,
                   sign_log, last_call, status, missing_input>>

\* main after the loop: json.dump(url_mapping) to video_url_mapping.json
ResolverSave ==
    /\ pc = "create_backup"
    /\ idx = Len(JSONL_FILES)
    /\ mapping_file' = [exists |-> TRUE, map |-> url_mapping]
    /\ Returns("resolver")
    /\ UNCHANGED <<updVars, bldVars, fs, fs0, fs_before, upload_log, signed_file, idx,
                   file_mapping, url_mapping, cos_paths, signed_urls, sign_log, last_call,
                   missing_input>>

\* generate_signed_urls.main up to the call of generate_signed_urls
RefresherStart ==
    /\ pc = "idle"
    /\ status.refresher = "none"
    /\ missing_input' = [missing_input EXCEPT !.refresher = ~mapping_file.exists]
    /\ \E version \in {"ok", "FileNotFoundError", "CalledProcessError"} :
          LET paths == extract_cos_paths_from_mapping(mapping_file)
          IN IF version # "ok" \/ paths = <<>>
             THEN /\ Returns("refresher")
                  /\ UNCHANGED <<cos_paths, signed_urls, idx, sign_log, fs_before>>
             ELSE /\ status' = [status EXCEPT !.refresher = "running"]
                  /\ pc' = "generate_signed_urls"
                  /\ cos_paths' = paths
                  /\ signed_urls' = <<>>
                  /\ idx' = 0
                  /\ sign_log' = [sign_log EXCEPT !.refresher = <<>>]
                  /\ fs_before' = fs
    /\ UNCHANGED <<updVars, bldVars, fs, fs0, upload_log, mapping_file, signed_file,
                   file_mapping, url_mapping, last_call>>

\* one iteration of the loop of generate_signed_urls
RefresherSign ==
    /\ pc = "generate_signed_urls"
    /\ idx < Len(cos_paths)
    /\ LET filename == cos_paths[idx + 1][1]
           cos_path == cos_paths[idx + 1][2]
       IN \E outcome \in Outcomes(cos_path, "?sign=s2") :
             LET signed_url == get_cos_signed_url_refresher(cos_path, outcome)
             IN /\ signed_urls' = IF Truthy(signed_url)
                                  THEN DictSet(signed_urls, filename, signed_url.url)
                                  ELSE signed_urls
                /\ sign_log' = [sign_log EXCEPT !.refresher =
                                   DictSet(@, filename, Logged(outcome))]
                /\ last_call' = [script |-> "refresher", filename |-> filename,
                                 cos_path |-> cos_path, outcome |-> outcome]
    /\ idx' = idx + 1
    /\ UNCHANGED <<updVars, bldVars, fs, fs0, fs_before, upload_log, mapping_file,
                   signed_file, file_mapping, url_mapping, cos_paths, pc, status,
                   missing_input>>

\* main after generate_signed_urls: leave when nothing was signed, else save the
\* signed mapping
RefresherSigned ==
    /\ pc = "generate_signed_urls"
    /\ idx = Len(cos_paths)
    /\ IF signed_urls = <<>>
       THEN Returns("refresher") /\ UNCHANGED <<idx, signed_file>>
       ELSE /\ signed_file' = [exists |-> TRUE, map |-> signed_urls]
            /\ pc' = "update_jsonl_files_with_signed_urls"
            /\ idx' = 0
            /\ UNCHANGED status
    /\ UNCHANGED <<updVars, bldVars, fs, fs0, fs_before, upload_log, mapping_file,
                   file_mapping, url_mapping, cos_paths, signed_urls, sign_log,
                   last_call, missing_input>>

\* update_jsonl_files_with_signed_urls, loop over JSONL_FILES: a manifest that
\* does not exist is passed over, else create_backup(jsonl_file + ".signed")
RefresherBackup ==
    /\ pc = "update_jsonl_files_with_signed_urls"
    /\ idx < Len(JSONL_FILES)
    /\ IF fs[JSONL_FILES[idx + 1]].exists
       THEN /\ fs' = create_backup(fs, JSONL_FILES[idx + 1] \o <<".signed">>)
            /\ pc' = "update_jsonl_file_signed"
            /\ UNCHANGED idx
       ELSE /\ idx' = idx + 1
            /\ UNCHANGED <<fs, pc>>
    /\ UNCHANGED <<updVars, bldVars, fs0, fs_before, upload_log, mapping_file,
                   signed_file, file_mapping, url_mapping, cos_paths, signed_urls,
                   sign_log, last_call, status, missing_input>>

\* update_jsonl_files_with_signed_urls: update_jsonl_file(jsonl_file, signed_urls)
RefresherUpdate ==
    /\ pc = "update_jsonl_file_signed"
    /\ fs' = [fs EXCEPT ![JSONL_FILES[idx + 1]] = update_jsonl_file(@, signed_urls).file]
    /\ idx' = idx + 1
    /\ pc' = "update_jsonl_files_with_signed_urls"
    /\ UNCHANGED <<updVars, bldVars, fs0, fs_before, upload_log, mapping_file,
                   signed_file, file_mapping, url_mapping, cos_paths, signed_urls,
                   sign_log, last_call, status, missing_input>>

\* main after update_jsonl_files_with_signed_urls
RefresherDone ==
    /\ pc = "update_jsonl_files_with_signed_urls"
    /\ idx = Len(JSONL_FILES)
    /\ Returns("refresher")
    /\ UNCHANGED <<updVars, bldVars, urlVars, fs, missing_input>>

Next ==
    \/ BuilderRun
    \/ ResolverStart
    \/ ResolverSign
    \/ ResolverMapped
    \/ ResolverBackup
    \/ ResolverUpdate
    \/ ResolverSave
    \/ RefresherStart
    \/ RefresherSign
    \/ RefresherSigned
    \/ RefresherBackup
    \/ RefresherUpdate
    \/ RefresherDone

Spec == Init /\ [][Next]_vars


(***************************************************************************)
(* Claims about the scripts                                                *)
(***************************************************************************)
\* C2: in the Resolver and in the Refresher, when update_jsonl_file is about to
\* rewrite an existing manifest, a backup file holds a copy of the manifest as
\* it is then; the Refresher's backup is not the Resolver's <manifest>.backup
C2_BackupBeforeRewrite ==
    /\ (pc = "update_jsonl_file" /\ fs[JSONL_FILES[idx + 1]].exists) =>
          fs[JSONL_FILES[idx + 1] \o <<".backup">>] = fs[JSONL_FILES[idx + 1]]
    /\ pc = "update_jsonl_file_signed" =>
          \E p \in FsPaths \ {JSONL_FILES[idx + 1], JSONL_FILES[idx + 1] \o <<".backup">>} :
              fs[p] = fs[JSONL_FILES[idx + 1]]

Scripts == {"builder", "resolver", "refresher"}

Ended(script) == status[script] \in {"returned", "raised"}

PublicUrlOf(remote_path) ==
    <<"https:", "/", "/", "texttoaudio-train-1258344703", ".cos.", "ap-shanghai",
      ".myqcloud.com", "/">> \o remote_path

\* C8: in the Resolver, an entry whose filename ends in .mp4 gets the public URL
\* of its remote path when the tool is missing, times out or exits non-zero, and
\* the URL the tool returned otherwise; no other filename is a key of the mapping
C8_ResolverFallbackAndFilter ==
    /\ \A k \in DictKeys(url_mapping) :
          EndsWith(k, <<".mp4">>) /\ DictHas(file_mapping, k)
    /\ last_call.script = "resolver" =>
          /\ EndsWith(last_call.filename, <<".mp4">>)
          /\ last_call.outcome.kind \in
                {"FileNotFoundError", "TimeoutExpired", "CalledProcessError"} =>
                /\ DictHas(url_mapping, last_call.filename)
                /\ DictGet(url_mapping, last_call.filename) = PublicUrlOf(last_call.cos_path)
          /\ (last_call.outcome.kind = "ok" /\ last_call.outcome.url # <<>>) =>
                /\ DictHas(url_mapping, last_call.filename)
                /\ DictGet(url_mapping, last_call.filename) = last_call.outcome.url
    /\ \A f \in DictKeys(sign_log.resolver) :
          LET o == DictGet(sign_log.resolver, f)
          IN /\ o.failed =>
                   /\ DictHas(url_mapping, f)
                   /\ DictGet(url_mapping, f) = PublicUrlOf(DictGet(file_mapping, f))
             /\ (~o.failed /\ o.url # <<>>) =>
                   DictHas(url_mapping, f) /\ DictGet(url_mapping, f) = o.url
    /\ (status.resolver \in {"running", "returned"} /\ pc # "generate_video_url_mapping") =>
          \A k \in DictKeys(file_mapping) :
              EndsWith(k, <<".mp4">>) => DictHas(sign_log.resolver, k)
    /\ mapping_file.exists => mapping_file.map = url_mapping

\* the Resolver saved a mapping with a fallback URL and a returned URL, next to
\* an upload that is not an .mp4
C8_Witness ==
    /\ mapping_file.exists
    /\ \E f \in DictKeys(sign_log.resolver) : DictGet(sign_log.resolver, f).failed
    /\ \E f \in DictKeys(sign_log.resolver) :
          ~DictGet(sign_log.resolver, f).failed /\ DictGet(sign_log.resolver, f).url # <<>>
    /\ \E k \in DictKeys(file_mapping) : ~EndsWith(k, <<".mp4">>)

\* the Refresher has started signing
RefresherSigning == status.refresher \in {"running", "returned"} /\ cos_paths # <<>>

Skipped ==
    {f \in DictKeys(sign_log.refresher) :
        DictGet(sign_log.refresher, f).failed \/ DictGet(sign_log.refresher, f).url = <<>>}

\* the references of manifest p before, as <<line, position>>, over the
\* non-blank lines
RefsOf(file) ==
    IF ~file.exists THEN {}
    ELSE LET nb == NonBlank(file.lines)
         IN UNION {{<<i, j>> : j \in DOMAIN nb[i].data.videos} :
                      i \in {k \in DOMAIN nb : nb[k].kind = "obj" /\ nb[k].data.hasVideos}}

ValueAt(file, ref) == NonBlank(file.lines)[ref[1]].data.videos[ref[2]][2]

\* C9: in the Refresher the keys of the signed mapping are the filenames whose
\* signing call returned a URL; a failed entry is skipped and gets no public
\* URL, the other entries are still processed, and a manifest reference to a
\* skipped file keeps the value it had before the Refresher ran
C9_RefresherSkipsFailures ==
    RefresherSigning =>
        /\ DictKeys(signed_urls) = DictKeys(sign_log.refresher) \ Skipped
        /\ \A f \in DictKeys(signed_urls) :
              DictGet(signed_urls, f) = DictGet(sign_log.refresher, f).url
        /\ last_call.script = "refresher" =>
              (last_call.outcome.kind \in
                  {"FileNotFoundError", "TimeoutExpired", "CalledProcessError"}
               => ~DictHas(signed_urls, last_call.filename))
        /\ pc # "generate_signed_urls" => DictKeys(sign_log.refresher) = DictKeys(cos_paths)
        /\ signed_file.exists => signed_file.map = signed_urls
        /\ \A i \in DOMAIN JSONL_FILES :
              \A ref \in RefsOf(fs_before[JSONL_FILES[i]]) :
                  basename(ValueAt(fs_before[JSONL_FILES[i]], ref)) \in Skipped =>
                      ValueAt(fs[JSONL_FILES[i]], ref) = ValueAt(fs_before[JSONL_FILES[i]], ref)

\* the Refresher has rewritten the manifests with one file signed and one
\* skipped, and a manifest refers to the skipped one
C9_Witness ==
    /\ status.refresher = "returned"
    /\ signed_file.exists
    /\ \E f \in Skipped : DictGet(sign_log.refresher, f).failed
    /\ \E i \in DOMAIN JSONL_FILES : \E ref \in RefsOf(fs_before[JSONL_FILES[i]]) :
          basename(ValueAt(fs_before[JSONL_FILES[i]], ref)) \in Skipped

\* the Resolver and then the Refresher have rewritten the manifests
BothRewrote ==
    /\ status.resolver = "returned"
    /\ status.refresher = "returned"
    /\ signed_file.exists

\* C10 as stated: after the Resolver and the Refresher, a reference that was to
\* local file f, with f freshly signed by the Refresher, holds the fresh URL
C10_OriginalReferenceRefreshed ==
    BothRewrote =>
        \A i \in DOMAIN JSONL_FILES : \A ref \in RefsOf(fs0[JSONL_FILES[i]]) :
            LET f == basename(ValueAt(fs0[JSONL_FILES[i]], ref))
            IN DictHas(signed_urls, f) =>
                  ValueAt(fs[JSONL_FILES[i]], ref) = DictGet(signed_urls, f)

\* C10 amended: a reference that was to local file f and whose value when the
\* Refresher starts still has basename f holds the fresh URL of f when the
\* Refresher signed f; a reference whose value then has a basename that is no
\* key of the signed mapping (a signed URL, ending in "f?<query>") keeps that value
C10_CurrentBasenameRefreshed ==
    BothRewrote =>
        \A i \in DOMAIN JSONL_FILES : \A ref \in RefsOf(fs0[JSONL_FILES[i]]) :
            LET f  == basename(ValueAt(fs0[JSONL_FILES[i]], ref))
                v1 == ValueAt(fs_before[JSONL_FILES[i]], ref)
                v2 == ValueAt(fs[JSONL_FILES[i]], ref)
            IN /\ (DictHas(signed_urls, f) /\ basename(v1) = f) => v2 = DictGet(signed_urls, f)
               /\ ~DictHas(signed_urls, basename(v1)) => v2 = v1

\* a reference to a local file that the Resolver turned into the public URL and
\* the Refresher into the fresh signed URL
C10_Witness ==
    /\ BothRewrote
    /\ \E i \in DOMAIN JSONL_FILES : \E ref \in RefsOf(fs0[JSONL_FILES[i]]) :
          LET f == basename(ValueAt(fs0[JSONL_FILES[i]], ref))
          IN /\ DictHas(signed_urls, f)
             /\ ValueAt(fs_before[JSONL_FILES[i]], ref) # ValueAt(fs0[JSONL_FILES[i]], ref)
             /\ basename(ValueAt(fs_before[JSONL_FILES[i]], ref)) = f
             /\ ValueAt(fs[JSONL_FILES[i]], ref) = DictGet(signed_urls, f)

====
